---- MODULE Spec2Model ----
(***************************************************************************)
(* Model of arduino/Write_influxdb_template.ino: setup() followed by the   *)
(* endless loop().  The sketch is strictly sequential, so each statement   *)
(* group is one action and pc is the position in setup()/loop().           *)
(*                                                                         *)
(* The collaborators (wifiMulti, the SHT31 driver, the InfluxDB client and *)
(* its Point) are the environment.  Their return values are chosen         *)
(* nondeterministically; the state they keep between calls is modelled as  *)
(* they keep it:                                                           *)
(*   - SHT31 holds the last raw temperature/humidity and an error code;    *)
(*     every bus transaction (read, readStatus) may fail and then stores   *)
(*     its own error code; getError() returns the stored code and resets   *)
(*     it to OK.                                                           *)
(*   - Point holds its tags and its fields as append-only lists; addTag /  *)
(*     addField append one entry, clearFields empties the field list only. *)
(***************************************************************************)
EXTENDS Integers, Sequences, FiniteSets, TLC

\* ---- bounds of the model ----
MaxErrorCode == 1
MaxReading == 1
MaxStatus == 0
MaxCycles == 2

\* ---- program constants ----
StartupRetryDelayMs == 500
LoopDelayMs == 1000

ErrorCodes == 0..MaxErrorCode
Readings == 1..MaxReading
StatusValues == 0..MaxStatus
WifiStatuses == {"WL_CONNECTED", "WL_DISCONNECTED"}
IpAddresses == {"ip1", "ip2"}
MacAddresses == {"mac1"}

VARIABLES
    pc,          \* position in setup()/loop()
    wifiStatus,  \* last value returned by wifiMulti.run() ("WL_IDLE" before the first call)
    tags,        \* sensor: tag list, <<name, value>> entries
    fields,      \* sensor: field list, <<name, value>> entries
    error,       \* global int error
    shtError,    \* SHT31 driver: stored error code
    shtT,        \* SHT31 driver: held temperature
    shtRH,       \* SHT31 driver: held humidity
    timeSynced,  \* timeSync() has run
    validated,   \* outcome of client.validateConnection(): "none", "ok", "failed"
    printed,     \* last line written to Serial
    lineLogged,  \* last point rendered by pointToLineProtocol to Serial
    written,     \* last point passed to client.writePoint
    lastDelay,   \* duration of the last delay() call, 0 before any
    cycle,       \* number of loop() iterations started (saturates at MaxCycles)
    added,       \* history: field entries added since loop() was entered
    logs,        \* history: line-protocol logs since loop() was entered
    writeAttempts, \* history: writePoint calls since loop() was entered
    prevNames    \* history: field names of the point written in the previous iteration

vars == <<pc, wifiStatus, tags, fields, error, shtError, shtT, shtRH,
          timeSynced, validated, printed, lineLogged, written,
          lastDelay, cycle, added, logs, writeAttempts, prevNames>>

\* ---- Point helpers ----
NoPoint == [tags |-> <<>>, fields |-> <<>>]

Names(list) == {list[i][1] : i \in 1..Len(list)}

HasField(p, name) == name \in Names(p.fields)

Count(list, name) == Cardinality({i \in 1..Len(list) : list[i][1] = name})

Value(list, name) == list[CHOOSE i \in 1..Len(list) : list[i][1] = name][2]

addField(list, name, value) == Append(list, <<name, value>>)

addTag(list, name, value) == Append(list, <<name, value>>)

\* Symbolic value of (c*gamma)/(b-gamma): the pair of inputs it is computed from.
DewPoint(t, rh) == <<t, rh>>

SetupPcs == {"begin", "wifi_wait", "add_tags", "time_sync", "validate"}

LoopPcs == {"clear", "read", "get_error", "temp_hum", "stat", "error_field",
            "dewpoint", "log", "wifi_check", "write", "delay"}

Init ==
    /\ pc = "begin"
    /\ wifiStatus = "WL_IDLE"
    /\ tags = <<>>
    /\ fields = <<>>
    /\ error = 0
    /\ shtError = 0
    /\ shtT = 0
    /\ shtRH = 0
    /\ timeSynced = FALSE
    /\ validated = "none"
    /\ printed = ""
    /\ lineLogged = NoPoint
    /\ written = NoPoint
    /\ lastDelay = 0
    /\ cycle = 0
    /\ added = {}
    /\ logs = 0
    /\ writeAttempts = 0
    /\ prevNames = {}

\* ---- setup() ----

\* lines 63-71: serial, WiFi mode, addAP, Wire.begin, sht.begin, banner
SetupBegin ==
    /\ pc = "begin"
    /\ pc' = "wifi_wait"
    /\ printed' = "Connecting to wifi"
    /\ UNCHANGED <<wifiStatus, tags, fields, error, shtError, shtT, shtRH,
                   timeSynced, validated, lineLogged, written,
                   lastDelay, cycle, added, logs, writeAttempts, prevNames>>

\* lines 72-76: one evaluation of the while condition and, if it holds, the body
SetupWifiWait_GiveUp ==
    /\ pc = "wifi_wait"
    /\ \E st \in WifiStatuses :
        /\ wifiStatus' = st
        /\ IF st # "WL_CONNECTED" /\ lastDelay # StartupRetryDelayMs
           THEN /\ printed' = "."
                /\ lastDelay' = StartupRetryDelayMs
                /\ pc' = "wifi_wait"
           ELSE /\ printed' = ""
                /\ pc' = "add_tags"
                /\ UNCHANGED lastDelay
    /\ UNCHANGED <<tags, fields, error, shtError, shtT, shtRH, timeSynced, validated,
                   lineLogged, written, cycle, added, logs,
                   writeAttempts, prevNames>>

SetupWifiWait ==
    /\ pc = "wifi_wait"
    /\ \E st \in WifiStatuses :
        /\ wifiStatus' = st
        /\ IF st # "WL_CONNECTED"
           THEN /\ printed' = "."
                /\ lastDelay' = StartupRetryDelayMs
                /\ pc' = "wifi_wait"
           ELSE /\ printed' = ""
                /\ pc' = "add_tags"
                /\ UNCHANGED lastDelay
    /\ UNCHANGED <<tags, fields, error, shtError, shtT, shtRH, timeSynced, validated,
                   lineLogged, written, cycle, added, logs,
                   writeAttempts, prevNames>>

\* lines 81-82: the two addTag calls; the addresses are what the platform reports
SetupAddTags ==
    /\ pc = "add_tags"
    /\ \E ip \in IpAddresses, mac \in MacAddresses :
        tags' = addTag(addTag(tags, "IP", ip), "MAC", mac)
    /\ pc' = "time_sync"
    /\ UNCHANGED <<wifiStatus, fields, error, shtError, shtT, shtRH,
                   timeSynced, validated, printed, lineLogged, written,
                   lastDelay, cycle, added, logs, writeAttempts, prevNames>>

\* line 90
SetupTimeSync ==
    /\ pc = "time_sync"
    /\ timeSynced' = TRUE
    /\ pc' = "validate"
    /\ UNCHANGED <<wifiStatus, tags, fields, error, shtError, shtT, shtRH,
                   validated, printed, lineLogged, written,
                   lastDelay, cycle, added, logs, writeAttempts, prevNames>>

\* lines 93-102: validateConnection, one of the two log lines, return from setup
SetupValidate_Abort ==
    /\ pc = "validate"
    /\ \E ok \in BOOLEAN :
        IF ok
        THEN /\ validated' = "ok"
             /\ printed' = "Connected to InfluxDB"
             /\ pc' = "clear"
        ELSE /\ validated' = "failed"
             /\ printed' = "InfluxDB connection failed"
             /\ pc' = "halt"
    /\ UNCHANGED <<wifiStatus, tags, fields, error, shtError, shtT, shtRH,
                   timeSynced, lineLogged, written,
                   lastDelay, cycle, added, logs, writeAttempts, prevNames>>

SetupValidate ==
    /\ pc = "validate"
    /\ \E ok \in BOOLEAN :
        IF ok
        THEN /\ validated' = "ok"
             /\ printed' = "Connected to InfluxDB"
        ELSE /\ validated' = "failed"
             /\ printed' = "InfluxDB connection failed"
    /\ pc' = "clear"
    /\ UNCHANGED <<wifiStatus, tags, fields, error, shtError, shtT, shtRH,
                   timeSynced, lineLogged, written,
                   lastDelay, cycle, added, logs, writeAttempts, prevNames>>

\* ---- loop() ----

\* line 106 (entry of loop()): sensor.clearFields()
LoopClearFields_KeepFields ==
    /\ pc = "clear"
    /\ fields' = fields
    /\ cycle' = IF cycle < MaxCycles THEN cycle + 1 ELSE cycle
    /\ added' = {}
    /\ logs' = 0
    /\ writeAttempts' = 0
    /\ pc' = "read"
    /\ UNCHANGED <<wifiStatus, tags, error, shtError, shtT, shtRH,
                   timeSynced, validated, printed, lineLogged, written,
                   lastDelay, prevNames>>

LoopClearFields_ClearTags ==
    /\ pc = "clear"
    /\ fields' = <<>>
    /\ tags' = <<>>
    /\ cycle' = IF cycle < MaxCycles THEN cycle + 1 ELSE cycle
    /\ added' = {}
    /\ logs' = 0
    /\ writeAttempts' = 0
    /\ pc' = "read"
    /\ UNCHANGED <<wifiStatus, error, shtError, shtT, shtRH,
                   timeSynced, validated, printed, lineLogged, written,
                   lastDelay, prevNames>>

LoopClearFields ==
    /\ pc = "clear"
    /\ fields' = <<>>
    /\ cycle' = IF cycle < MaxCycles THEN cycle + 1 ELSE cycle
    /\ added' = {}
    /\ logs' = 0
    /\ writeAttempts' = 0
    /\ pc' = "read"
    /\ UNCHANGED <<wifiStatus, tags, error, shtError, shtT, shtRH,
                   timeSynced, validated, printed, lineLogged, written,
                   lastDelay, prevNames>>

\* line 107: sht.read(); a failed read stores its error and keeps the held values
LoopShtRead ==
    /\ pc = "read"
    /\ \E e \in ErrorCodes :
        /\ shtError' = e
        /\ IF e = 0
           THEN \E t \in Readings, rh \in Readings : shtT' = t /\ shtRH' = rh
           ELSE UNCHANGED <<shtT, shtRH>>
    /\ pc' = "get_error"
    /\ UNCHANGED <<wifiStatus, tags, fields, error,
                   timeSynced, validated, printed, lineLogged, written,
                   lastDelay, cycle, added, logs, writeAttempts, prevNames>>

\* line 108: error = sht.getError()
LoopGetError ==
    /\ pc = "get_error"
    /\ error' = shtError
    /\ shtError' = 0
    /\ pc' = "temp_hum"
    /\ UNCHANGED <<wifiStatus, tags, fields, shtT, shtRH,
                   timeSynced, validated, printed, lineLogged, written,
                   lastDelay, cycle, added, logs, writeAttempts, prevNames>>

\* lines 109-112
LoopAddTempHum_Unguarded ==
    /\ pc = "temp_hum"
    /\ fields' = addField(addField(fields, "temp", <<shtT>>), "hum", <<shtRH>>)
    /\ added' = added \cup {<<"temp", <<shtT>>>>, <<"hum", <<shtRH>>>>}
    /\ pc' = "stat"
    /\ UNCHANGED <<wifiStatus, tags, error, shtError, shtT, shtRH,
                   timeSynced, validated, printed, lineLogged, written,
                   lastDelay, cycle, logs, writeAttempts, prevNames>>

LoopAddTempHum ==
    /\ pc = "temp_hum"
    /\ IF error = 0
       THEN /\ fields' = addField(addField(fields, "temp", <<shtT>>), "hum", <<shtRH>>)
            /\ added' = added \cup {<<"temp", <<shtT>>>>, <<"hum", <<shtRH>>>>}
       ELSE UNCHANGED <<fields, added>>
    /\ pc' = "stat"
    /\ UNCHANGED <<wifiStatus, tags, error, shtError, shtT, shtRH,
                   timeSynced, validated, printed, lineLogged, written,
                   lastDelay, cycle, logs, writeAttempts, prevNames>>

\* line 113: sensor.addField("stat", sht.readStatus()); readStatus is a bus
\* transaction of its own and stores an error code when it fails
LoopAddStat_Guarded ==
    /\ pc = "stat"
    /\ \E se \in ErrorCodes, sv \in StatusValues :
        /\ shtError' = IF se = 0 THEN shtError ELSE se
        /\ IF error = 0
           THEN /\ fields' = addField(fields, "stat", <<sv>>)
                /\ added' = added \cup {<<"stat", <<sv>>>>}
           ELSE UNCHANGED <<fields, added>>
    /\ pc' = "error_field"
    /\ UNCHANGED <<wifiStatus, tags, error, shtT, shtRH,
                   timeSynced, validated, printed, lineLogged, written,
                   lastDelay, cycle, logs, writeAttempts, prevNames>>

LoopAddStat ==
    /\ pc = "stat"
    /\ \E se \in ErrorCodes, sv \in StatusValues :
        /\ shtError' = IF se = 0 THEN shtError ELSE se
        /\ fields' = addField(fields, "stat", <<sv>>)
        /\ added' = added \cup {<<"stat", <<sv>>>>}
    /\ pc' = "error_field"
    /\ UNCHANGED <<wifiStatus, tags, error, shtT, shtRH,
                   timeSynced, validated, printed, lineLogged, written,
                   lastDelay, cycle, logs, writeAttempts, prevNames>>

\* line 114: sensor.addField("error", sht.getError())
LoopAddError ==
    /\ pc = "error_field"
    /\ fields' = addField(fields, "error", <<shtError>>)
    /\ added' = added \cup {<<"error", <<shtError>>>>}
    /\ shtError' = 0
    /\ pc' = "dewpoint"
    /\ UNCHANGED <<wifiStatus, tags, error, shtT, shtRH,
                   timeSynced, validated, printed, lineLogged, written,
                   lastDelay, cycle, logs, writeAttempts, prevNames>>

\* lines 115-122
LoopAddDewpoint_Guarded ==
    /\ pc = "dewpoint"
    /\ IF error = 0
       THEN /\ fields' = addField(fields, "dewpoint", DewPoint(shtT, shtRH))
            /\ added' = added \cup {<<"dewpoint", DewPoint(shtT, shtRH)>>}
       ELSE UNCHANGED <<fields, added>>
    /\ pc' = "log"
    /\ UNCHANGED <<wifiStatus, tags, error, shtError, shtT, shtRH,
                   timeSynced, validated, printed, lineLogged, written,
                   lastDelay, cycle, logs, writeAttempts, prevNames>>

LoopAddDewpoint ==
    /\ pc = "dewpoint"
    /\ fields' = addField(fields, "dewpoint", DewPoint(shtT, shtRH))
    /\ added' = added \cup {<<"dewpoint", DewPoint(shtT, shtRH)>>}
    /\ pc' = "log"
    /\ UNCHANGED <<wifiStatus, tags, error, shtError, shtT, shtRH,
                   timeSynced, validated, printed, lineLogged, written,
                   lastDelay, cycle, logs, writeAttempts, prevNames>>

\* lines 124-125
LoopLog ==
    /\ pc = "log"
    /\ printed' = "Writing: "
    /\ lineLogged' = [tags |-> tags, fields |-> fields]
    /\ logs' = logs + 1
    /\ pc' = "wifi_check"
    /\ UNCHANGED <<wifiStatus, tags, fields, error, shtError, shtT, shtRH,
                   timeSynced, validated, written,
                   lastDelay, cycle, added, writeAttempts, prevNames>>

\* lines 127-129
LoopWifiCheck_Block ==
    /\ pc = "wifi_check"
    /\ \E st \in WifiStatuses :
        /\ wifiStatus' = st
        /\ IF st # "WL_CONNECTED"
           THEN printed' = "Wifi connection lost" /\ pc' = "wifi_check"
           ELSE UNCHANGED printed /\ pc' = "write"
    /\ UNCHANGED <<tags, fields, error, shtError, shtT, shtRH,
                   timeSynced, validated, lineLogged, written,
                   lastDelay, cycle, added, logs, writeAttempts, prevNames>>

LoopWifiCheck ==
    /\ pc = "wifi_check"
    /\ \E st \in WifiStatuses :
        /\ wifiStatus' = st
        /\ IF st # "WL_CONNECTED"
           THEN printed' = "Wifi connection lost"
           ELSE UNCHANGED printed
    /\ pc' = "write"
    /\ UNCHANGED <<tags, fields, error, shtError, shtT, shtRH,
                   timeSynced, validated, lineLogged, written,
                   lastDelay, cycle, added, logs, writeAttempts, prevNames>>

\* lines 131-134
LoopWritePoint_Retry ==
    /\ pc = "write"
    /\ \E ok \in BOOLEAN :
        IF ok
        THEN UNCHANGED printed /\ pc' = "delay"
        ELSE printed' = "InfluxDB write failed" /\ pc' = "write"
    /\ written' = [tags |-> tags, fields |-> fields]
    /\ prevNames' = Names(written.fields)
    /\ writeAttempts' = writeAttempts + 1
    /\ UNCHANGED <<wifiStatus, tags, fields, error, shtError, shtT, shtRH,
                   timeSynced, validated, lineLogged,
                   lastDelay, cycle, added, logs>>

LoopWritePoint ==
    /\ pc = "write"
    /\ \E ok \in BOOLEAN :
        IF ok
        THEN UNCHANGED printed
        ELSE printed' = "InfluxDB write failed"
    /\ written' = [tags |-> tags, fields |-> fields]
    /\ prevNames' = Names(written.fields)
    /\ writeAttempts' = writeAttempts + 1
    /\ pc' = "delay"
    /\ UNCHANGED <<wifiStatus, tags, fields, error, shtError, shtT, shtRH,
                   timeSynced, validated, lineLogged,
                   lastDelay, cycle, added, logs>>

\* lines 137-139: "Wait 1s", delay(1000), return; loop() is entered again
LoopDelay ==
    /\ pc = "delay"
    /\ printed' = "Wait 1s"
    /\ lastDelay' = LoopDelayMs
    /\ pc' = "clear"
    /\ UNCHANGED <<wifiStatus, tags, fields, error, shtError, shtT, shtRH,
                   timeSynced, validated, lineLogged, written,
                   cycle, added, logs, writeAttempts, prevNames>>

Next ==
    \/ SetupBegin
    \/ SetupWifiWait
    \/ SetupAddTags
    \/ SetupTimeSync
    \/ SetupValidate
    \/ LoopClearFields
    \/ LoopShtRead
    \/ LoopGetError
    \/ LoopAddTempHum
    \/ LoopAddStat
    \/ LoopAddError
    \/ LoopAddDewpoint
    \/ LoopLog
    \/ LoopWifiCheck
    \/ LoopWritePoint
    \/ LoopDelay

Spec == Init /\ [][Next]_vars

\* The sketch is the only thread of control and every statement terminates,
\* so the program always takes its next step.
LiveSpec == Spec /\ WF_vars(Next)

TypeOK ==
    /\ pc \in SetupPcs \cup LoopPcs
    /\ error \in ErrorCodes
    /\ shtError \in ErrorCodes
    /\ cycle \in 0..MaxCycles

\* ---- properties ----

\* The point has just been passed to writePoint in this iteration.
JustWritten == pc = "delay"

\* C1: the point passed to writePoint contains "temp" and "hum" exactly when
\* the error code captured after the read is 0; with a non-zero code neither
\* field is present.
C1_TempHumIffNoError ==
    JustWritten =>
        /\ HasField(written, "temp") <=> error = 0
        /\ HasField(written, "hum") <=> error = 0

C1_Witness ==
    /\ JustWritten
    /\ error # 0
    /\ ~HasField(written, "temp")
    /\ ~HasField(written, "hum")

\* C2: whatever the error code is, the point passed to writePoint contains
\* both the "stat" field and the "error" field.
C2_StatAndErrorAlways ==
    JustWritten => HasField(written, "stat") /\ HasField(written, "error")

C2_Witness ==
    /\ JustWritten
    /\ error # 0
    /\ HasField(written, "stat")
    /\ HasField(written, "error")

\* C3: the tags "IP" and "MAC" are assigned in setup and no step of loop()
\* changes them; every point passed to writePoint carries exactly those tags.
C3_TagsPersist ==
    [][ /\ pc \in LoopPcs => /\ tags' = tags
                             /\ Len(tags) = 2
                             /\ tags[1][1] = "IP"
                             /\ tags[2][1] = "MAC"
        /\ pc = "write" => written'.tags = tags ]_vars

C3_Witness ==
    /\ JustWritten
    /\ cycle = MaxCycles
    /\ Len(written.tags) = 2
    /\ written.tags = tags

\* C4: the point written in an iteration contains only field entries added in
\* that iteration, each field name once; "temp"/"hum" of an error-free
\* iteration are absent from the point of a following iteration with an error.
C4_NoLeak ==
    JustWritten =>
        /\ \A i \in 1..Len(written.fields) : written.fields[i] \in added
        /\ \A n \in Names(written.fields) : Count(written.fields, n) = 1
        /\ error # 0 => ~HasField(written, "temp") /\ ~HasField(written, "hum")

C4_Witness ==
    /\ JustWritten
    /\ "temp" \in prevNames
    /\ error # 0
    /\ ~HasField(written, "temp")

\* C5: whether the write succeeds or fails it is attempted once in the
\* iteration, the next step is the fixed 1000 ms delay and then loop() is
\* entered again; no step leads out of the loop.
C5_WriteFailureKeepsCadence ==
    [][ /\ pc = "write" => /\ writeAttempts = 0
                           /\ writeAttempts' = 1
                           /\ pc' = "delay"
        /\ pc = "delay" => /\ writeAttempts = 1
                           /\ lastDelay' = LoopDelayMs
                           /\ pc' = "clear"
        /\ pc \in LoopPcs => pc' \in LoopPcs ]_vars

C5_Witness ==
    /\ JustWritten
    /\ printed = "InfluxDB write failed"
    /\ writeAttempts = 1
    /\ cycle = MaxCycles

\* C6: when the association check in loop() reports not-connected the
\* iteration does not wait: the fields and the line-protocol log are already
\* there, the write attempt and the delay follow, and a new iteration begins.
C6_WifiLossDoesNotBlock ==
    /\ [](pc = "write" /\ wifiStatus # "WL_CONNECTED" =>
            /\ logs = 1
            /\ lineLogged.fields = fields
            /\ {"stat", "error", "dewpoint"} \subseteq Names(fields))
    /\ [][pc = "wifi_check" => pc' = "write"]_vars
    /\ (pc = "write" /\ wifiStatus # "WL_CONNECTED") ~> (pc = "delay" /\ writeAttempts = 1)
    /\ (pc = "wifi_check") ~> (pc = "clear")

C6_Witness ==
    /\ JustWritten
    /\ wifiStatus = "WL_DISCONNECTED"
    /\ logs = 1
    /\ writeAttempts = 1

\* C7: setup retries the association check every 500 ms without bound; tags,
\* time sync, validation and the first iteration come only after a check
\* returned connected, and once one did the loop is reached.
C7_StartupBlocksUntilAssociated ==
    /\ [](pc \in {"begin", "wifi_wait"} =>
            /\ tags = <<>>
            /\ ~timeSynced
            /\ validated = "none"
            /\ cycle = 0)
    /\ [][pc = "wifi_wait" =>
            IF wifiStatus' = "WL_CONNECTED"
            THEN pc' = "add_tags"
            ELSE pc' = "wifi_wait" /\ lastDelay' = StartupRetryDelayMs]_vars
    /\ (pc = "add_tags") ~> (pc = "clear")

C7_Witness ==
    /\ pc = "clear"
    /\ cycle = 0
    /\ lastDelay = StartupRetryDelayMs
    /\ Len(tags) = 2
    /\ timeSynced

\* C8: a failed validateConnection does not abort: setup returns, loop() runs
\* and attempts its writes as after a successful check.
C8_ValidationFailureDoesNotAbort ==
    /\ [][pc = "validate" => pc' = "clear"]_vars
    /\ (validated = "failed") ~> (pc = "delay" /\ writeAttempts = 1)
    /\ (validated = "failed" /\ pc = "delay") ~> (pc = "clear")

C8_Witness ==
    /\ validated = "failed"
    /\ JustWritten
    /\ writeAttempts = 1
    /\ cycle = MaxCycles

\* C9: "dewpoint" is added in every iteration, also when the read reported an
\* error; it is computed from the values the driver holds at that moment.
C9_DewpointUnguarded ==
    JustWritten =>
        /\ HasField(written, "dewpoint")
        /\ Value(written.fields, "dewpoint") = DewPoint(shtT, shtRH)

C9_Witness ==
    /\ JustWritten
    /\ error # 0
    /\ HasField(written, "dewpoint")
    /\ ~HasField(written, "temp")
    /\ shtT # 0

\* C10: the value of the "error" field of the written point is the error code
\* captured after sht.read(), the one that gates "temp" and "hum".
C10_ErrorFieldIsGate ==
    JustWritten => Value(written.fields, "error") = <<error>>
====
